---------------------------- MODULE Spec2Model ----------------------------
(***************************************************************************)
(* FlipFlop Engine (src/main.py): the request pipeline of POST /flipflop.   *)
(*                                                                         *)
(* A Python str is a sequence of one-character strings.  A Python value    *)
(* that may be None is a record [t, s]: t = "None" or t = "str".           *)
(* An exception is a record [exc, status_code, detail].                    *)
(***************************************************************************)
EXTENDS Integers, Sequences, FiniteSets, TLC

(***************************************************************************)
(* Program constants                                                       *)
(***************************************************************************)
MAX_CHARS == 500
MIN_CHARS == 450
NOUN_MAX_LENGTH == 500
TAIL_MAX_LENGTH == 200
BAD_GATEWAY == 502
UNPROCESSABLE == 422
INTERNAL_ERROR == 500
HTTP_OK == 200

(***************************************************************************)
(* Bounds of the model                                                     *)
(***************************************************************************)
MaxNounLen == 1        \* request nouns have 0..MaxNounLen characters
MaxTailLen == 1        \* request style tails have 0..MaxTailLen characters
MaxOver == 2           \* paragraphs reach MAX_CHARS + MaxOver characters
MaxShort == 2          \* short paragraphs have 0..MaxShort characters
MaxUnitLen == 2        \* strings handed to the prompt builder on its own

(***************************************************************************)
(* Python values                                                           *)
(***************************************************************************)
Whitespace == {" ", "\t", "\n"}

PyNone == [t |-> "None", s |-> <<>>]
PyStr(x) == [t |-> "str", s |-> x]

\* bool(v) of a value that is None or a str
Truthy(v) == v.t = "str" /\ v.s # <<>>

\* a or b
PyOr(a, b) == IF Truthy(a) THEN a ELSE b

RECURSIVE lstrip(_)
lstrip(s) == IF s = <<>> THEN s
             ELSE IF Head(s) \in Whitespace THEN lstrip(Tail(s)) ELSE s

RECURSIVE rstrip(_)
rstrip(s) == IF s = <<>> THEN s
             ELSE IF s[Len(s)] \in Whitespace THEN rstrip(SubSeq(s, 1, Len(s) - 1))
             ELSE s

\* str.strip()
strip(s) == rstrip(lstrip(s))

\* s[:n]
Prefix(s, n) == IF Len(s) <= n THEN s ELSE SubSeq(s, 1, n)

RECURSIVE StringsUpTo(_, _)
StringsUpTo(alphabet, n) ==
    IF n = 0 THEN {<<>>}
    ELSE LET shorter == StringsUpTo(alphabet, n - 1)
         IN shorter \cup {Append(s, c) : s \in shorter, c \in alphabet}

(***************************************************************************)
(* Exceptions and returns                                                  *)
(***************************************************************************)
NoExc == [exc |-> "none", status_code |-> 0, detail |-> ""]
HTTPException(code, text) == [exc |-> "HTTPException", status_code |-> code, detail |-> text]
RuntimeError(text) == [exc |-> "RuntimeError", status_code |-> 0, detail |-> text]

(***************************************************************************)
(* _enforce_length(paragraph, enforce) -> (paragraph, truncated)           *)
(***************************************************************************)
EnforceReturn(p, t) == [raised |-> NoExc, paragraph |-> p, truncated |-> t]
EnforceRaise(e) == [raised |-> e, paragraph |-> <<>>, truncated |-> FALSE]

enforce_length_keeps_overlong(paragraph, enforce) ==
    IF ~enforce THEN EnforceReturn(paragraph, FALSE)
    ELSE IF Len(paragraph) < MIN_CHARS
         THEN EnforceRaise(HTTPException(BAD_GATEWAY,
                  "Model returned text shorter than 450 characters."))
         ELSE EnforceReturn(paragraph, Len(paragraph) > MAX_CHARS)

enforce_length_no_minimum(paragraph, enforce) ==
    IF ~enforce THEN EnforceReturn(paragraph, FALSE)
    ELSE EnforceReturn(Prefix(paragraph, MAX_CHARS), Len(paragraph) > MAX_CHARS)

enforce_length_strict_bounds(paragraph, enforce) ==
    IF ~enforce THEN EnforceReturn(paragraph, FALSE)
    ELSE LET truncated == Len(paragraph) >= MAX_CHARS
             cut == IF truncated THEN Prefix(paragraph, MAX_CHARS) ELSE paragraph
         IN IF Len(cut) <= MIN_CHARS
            THEN EnforceRaise(HTTPException(BAD_GATEWAY,
                     "Model returned text shorter than 450 characters."))
            ELSE EnforceReturn(cut, truncated)

_enforce_length(paragraph, enforce) ==
    IF ~enforce THEN EnforceReturn(paragraph, FALSE)
    ELSE LET truncated == Len(paragraph) > MAX_CHARS
             cut == IF truncated THEN Prefix(paragraph, MAX_CHARS) ELSE paragraph
         IN IF Len(cut) < MIN_CHARS
            THEN EnforceRaise(HTTPException(BAD_GATEWAY,
                     "Model returned text shorter than 450 characters."))
            ELSE EnforceReturn(cut, truncated)

(***************************************************************************)
(* _maybe_build_image_prompt(paragraph, tail) -> str                       *)
(* tail is None or a str; `if tail:` is its truth value.                   *)
(***************************************************************************)
_maybe_build_image_prompt(paragraph, tail) ==
    IF Truthy(tail) THEN paragraph \o <<" ">> \o strip(tail.s)
    ELSE paragraph

(***************************************************************************)
(* The image backend's HTTP response and its JSON body.                    *)
(* A body is an object with optional "url" and "image_url" members, or a   *)
(* JSON value that is no object (array, string, null).                     *)
(***************************************************************************)
Member(present, v) == [present |-> present, v |-> v]
Absent == Member(FALSE, PyNone)

JsonObject(url, image_url) == [kind |-> "object", url |-> url, image_url |-> image_url]
JsonOther(kind) == [kind |-> kind, url |-> Absent, image_url |-> Absent]

HttpResponse(transport, status, parses, body) ==
    [transport |-> transport, status |-> status, parses |-> parses, body |-> body]

\* dict.get(key): the member's value, None when the key is absent
DictGet(member) == IF member.present THEN member.v ELSE PyNone

\* httpx.Response.is_success
IsSuccess(status) == status >= 200 /\ status <= 299

GenerateReturn(v) == [raised |-> NoExc, value |-> v, called |-> TRUE]
GenerateRaise(e) == [raised |-> e, value |-> PyNone, called |-> TRUE]

ImageBackendError == HTTPException(BAD_GATEWAY, "Image backend error")

(***************************************************************************)
(* _maybe_generate_image, lines 209-215: the try block, given the response *)
(* that httpx.post produced.                                               *)
(***************************************************************************)
read_image_response(resp) ==
    IF resp.transport # "ok" THEN GenerateRaise(ImageBackendError)
    ELSE IF ~IsSuccess(resp.status) THEN GenerateRaise(ImageBackendError)
    ELSE IF ~resp.parses THEN GenerateRaise(ImageBackendError)
    ELSE IF resp.body.kind # "object" THEN GenerateRaise(ImageBackendError)
    ELSE GenerateReturn(PyOr(DictGet(resp.body.url), DictGet(resp.body.image_url)))

\* _maybe_generate_image, lines 205-207: whether a call is made at all
ImageBackendConfigured(env) == Truthy(env.IMAGE_API_URL)

\* _maybe_generate_image(prompt), where resp is what the backend answers if asked
_maybe_generate_image(env, resp) ==
    IF ~ImageBackendConfigured(env)
    THEN [raised |-> NoExc, value |-> PyNone, called |-> FALSE]
    ELSE read_image_response(resp)

(***************************************************************************)
(* _build_llm_client                                                       *)
(***************************************************************************)
ClientReturn(variant, key) == [raised |-> NoExc, variant |-> variant, api_key |-> key]
ClientRaise(e) == [raised |-> e, variant |-> "none", api_key |-> PyNone]

_build_llm_client(env) ==
    LET api_key == PyOr(env.AZURE_OPENAI_API_KEY,
                        PyOr(env.OPENAI_API_KEY, env.OPENAI_APIKEY))
    IN IF ~Truthy(api_key)
       THEN ClientRaise(RuntimeError("Missing OPENAI_API_KEY or AZURE_OPENAI_API_KEY."))
       ELSE IF Truthy(env.AZURE_OPENAI_ENDPOINT)
            THEN IF ~env.openai_installed
                 THEN ClientRaise(RuntimeError("openai package not installed."))
                 ELSE ClientReturn("AzureOpenAI", api_key)
            ELSE IF ~env.openai_installed
                 THEN ClientRaise(RuntimeError("openai package not installed."))
                 ELSE ClientReturn("OpenAI", api_key)

(***************************************************************************)
(* _call_flipflop_llm: the user message, and the reading of the completion *)
(***************************************************************************)
UserMessage(noun1, noun2) ==
    <<"A", ":", " ">> \o noun1 \o <<"\n", "B", ":", " ">> \o noun2

Completion(kind, content) == [kind |-> kind, content |-> content]

LLMReturn(p) == [raised |-> NoExc, paragraph |-> p]
LLMRaise(e) == [raised |-> e, paragraph |-> <<>>]

read_completion_accepts_empty(completion) ==
    IF completion.kind = "exception"
    THEN LLMRaise(HTTPException(BAD_GATEWAY, "LLM call failed"))
    ELSE IF completion.kind = "no_choices"
    THEN LLMRaise(HTTPException(BAD_GATEWAY, "LLM returned no choices."))
    ELSE LLMReturn(strip(PyOr(completion.content, PyStr(<<>>)).s))

\* lines 163-179
read_completion(completion) ==
    IF completion.kind = "exception"
    THEN LLMRaise(HTTPException(BAD_GATEWAY, "LLM call failed"))
    ELSE IF completion.kind = "no_choices"
    THEN LLMRaise(HTTPException(BAD_GATEWAY, "LLM returned no choices."))
    ELSE LET content == PyOr(completion.content, PyStr(<<>>))
             paragraph == strip(content.s)
         IN IF paragraph = <<>>
            THEN LLMRaise(HTTPException(BAD_GATEWAY, "LLM returned empty content."))
            ELSE LLMReturn(paragraph)

(***************************************************************************)
(* FlipFlopRequest: the field constraints pydantic checks                  *)
(***************************************************************************)
Payload(n1, n2, enforce, image, tail) ==
    [noun1 |-> n1, noun2 |-> n2, enforce_length |-> enforce,
     request_image |-> image, image_style_tail |-> tail]

FlipFlopRequest(payload) ==
    /\ Len(payload.noun1) >= 1 /\ Len(payload.noun1) <= NOUN_MAX_LENGTH
    /\ Len(payload.noun2) >= 1 /\ Len(payload.noun2) <= NOUN_MAX_LENGTH
    /\ payload.image_style_tail.t = "str" => Len(payload.image_style_tail.s) <= TAIL_MAX_LENGTH

(***************************************************************************)
(* Inputs                                                                  *)
(***************************************************************************)
\* a paragraph of n characters: words of "a" and "b", a blank every k-th place
Para(n, k) == [i \in 1..n |-> IF i % k = 0 THEN " "
                              ELSE IF i % 2 = 0 THEN "b" ELSE "a"]

Blanks(n) == [i \in 1..n |-> " "]

EnvValues(name) == {PyNone, PyStr(<<name>>)}

Environments ==
    [AZURE_OPENAI_API_KEY : EnvValues("A"),
     OPENAI_API_KEY : EnvValues("B"),
     OPENAI_APIKEY : EnvValues("C"),
     AZURE_OPENAI_ENDPOINT : EnvValues("E"),
     IMAGE_API_URL : EnvValues("I"),
     openai_installed : BOOLEAN]

Nouns == StringsUpTo({"n", " "}, MaxNounLen)
Tails == {PyNone} \cup {PyStr(t) : t \in StringsUpTo({"w", " "}, MaxTailLen)}

Payloads ==
    {Payload(n1, n2, enforce, image, tail) :
        n1 \in Nouns, n2 \in Nouns, enforce \in BOOLEAN, image \in BOOLEAN, tail \in Tails}

PipelineLengths ==
    {MaxShort, MIN_CHARS - 1, MIN_CHARS, MAX_CHARS} \cup (MAX_CHARS + 1 .. MAX_CHARS + MaxOver)

Completions ==
    {Completion("exception", PyNone), Completion("no_choices", PyNone),
     Completion("content", PyNone), Completion("content", PyStr(<<>>)),
     Completion("content", PyStr(<<" ", "\n">>))}
    \cup {Completion("content", PyStr(Blanks(b) \o Para(n, 7) \o Blanks(b))) :
            n \in PipelineLengths, b \in {0, 1}}

MemberValues(u) == {Absent, Member(TRUE, PyNone), Member(TRUE, PyStr(<<>>)), Member(TRUE, PyStr(<<u>>))}

JsonBodies ==
    {JsonObject(u, v) : u \in MemberValues("u"), v \in MemberValues("v")}
    \cup {JsonOther("array"), JsonOther("string"), JsonOther("null")}

HttpResponses ==
    {HttpResponse("error", 0, FALSE, JsonOther("null"))}
    \cup {HttpResponse("ok", st, FALSE, JsonOther("null")) : st \in {200, 404, 500}}
    \cup {HttpResponse("ok", st, TRUE, b) : st \in {200, 404, 500}, b \in JsonBodies}

\* the responses a request of the pipeline is run against
PipelineHttpResponses ==
    {r \in HttpResponses :
        \/ r.transport = "error"
        \/ r.status = 500 /\ r.body.kind = "null"
        \/ r.status = 200 /\ ~r.parses
        \/ r.status = 200 /\ r.body.kind # "object"
        \/ r.status = 200 /\ r.body.url \in {Absent, Member(TRUE, PyStr(<<"u">>))}
                          /\ r.body.image_url \in {Absent, Member(TRUE, PyStr(<<>>)),
                                                    Member(TRUE, PyStr(<<"v">>))}}

NoEnvironment ==
    [AZURE_OPENAI_API_KEY |-> PyNone, OPENAI_API_KEY |-> PyNone, OPENAI_APIKEY |-> PyNone,
     AZURE_OPENAI_ENDPOINT |-> PyNone, IMAGE_API_URL |-> PyNone, openai_installed |-> TRUE]

\* the arguments of the functions called on their own
UnitLengths ==
    (0 .. MaxShort) \cup (MIN_CHARS - 2 .. MIN_CHARS + 2)
                   \cup (MAX_CHARS - 2 .. MAX_CHARS + MaxOver)

UnitParagraphs == {Para(n, k) : n \in UnitLengths, k \in {3, 5, 7}}

UnitStrings(letter) == StringsUpTo({letter, " ", "\t"}, MaxUnitLen)

UnitTails == {PyNone} \cup {PyStr(t) : t \in UnitStrings("w")}

(***************************************************************************)
(* State                                                                   *)
(***************************************************************************)
VARIABLES
    pc,              \* where the handler of the request is
    environ,         \* os.environ and the import of the openai package
    payload,         \* the request body
    outbound,        \* the outbound calls made so far, in order
    llm_paragraph,   \* what _call_flipflop_llm returned
    paragraph,       \* flipflop's local `paragraph` after _enforce_length
    truncated,
    image_prompt,
    image_url,
    response,        \* what the caller receives
    unit             \* a single function called on its own: its arguments and return

vars == <<pc, environ, payload, outbound, llm_paragraph, paragraph, truncated,
          image_prompt, image_url, response, unit>>

NoPayload == Payload(<<>>, <<>>, TRUE, FALSE, PyNone)
NoResponse == [status |-> 0, raised |-> NoExc, paragraph |-> <<>>, truncated |-> FALSE,
               image_prompt |-> PyNone, image_url |-> PyNone]
NoUnit == [fn |-> "none"]

OutboundCall(to, body) == [to |-> to, body |-> body]

\* FastAPI's answer to an exception that leaves the handler
ErrorResponse(e) ==
    [NoResponse EXCEPT !.raised = e,
                       !.status = IF e.exc = "HTTPException" THEN e.status_code
                                  ELSE INTERNAL_ERROR]

FlipFlopResponse_drops_prompt(p, t, prompt, url) ==
    [status |-> HTTP_OK, raised |-> NoExc, paragraph |-> p, truncated |-> t,
     image_prompt |-> PyNone, image_url |-> url]

\* FlipFlopResponse(...) returned by the handler, lines 232-237
FlipFlopResponse(p, t, prompt, url) ==
    [status |-> HTTP_OK, raised |-> NoExc, paragraph |-> p, truncated |-> t,
     image_prompt |-> prompt, image_url |-> url]

PipelineIdle ==
    /\ pc = "idle"
    /\ payload = NoPayload
    /\ outbound = <<>>
    /\ llm_paragraph = <<>>
    /\ paragraph = <<>>
    /\ truncated = FALSE
    /\ image_prompt = PyNone
    /\ image_url = PyNone
    /\ response = NoResponse

\* a request is about to arrive
InitPipeline ==
    /\ PipelineIdle
    /\ environ \in Environments
    /\ unit = NoUnit

\* _enforce_length is about to be called on its own
InitEnforce ==
    /\ PipelineIdle
    /\ environ = NoEnvironment
    /\ unit \in [fn : {"enforce"}, paragraph : UnitParagraphs, enforce : BOOLEAN,
                  done : {FALSE}, ret : {EnforceReturn(<<>>, FALSE)}]

\* _maybe_build_image_prompt is about to be called on its own
InitBuild ==
    /\ PipelineIdle
    /\ environ = NoEnvironment
    /\ unit \in [fn : {"build"}, paragraph : UnitStrings("p"), tail : UnitTails,
                  done : {FALSE}, ret : {<<>>}]

\* _maybe_generate_image is about to be called on its own
InitGenerate ==
    /\ PipelineIdle
    /\ environ \in {[NoEnvironment EXCEPT !.IMAGE_API_URL = v] :
                        v \in {PyNone, PyStr(<<>>), PyStr(<<"I">>)}}
    /\ unit \in [fn : {"generate"}, resp : HttpResponses,
                  done : {FALSE}, ret : {GenerateReturn(PyNone)}]

Init == InitPipeline \/ InitEnforce \/ InitBuild \/ InitGenerate

Fail(e) ==
    /\ pc' = "done"
    /\ response' = ErrorResponse(e)

(***************************************************************************)
(* The request arrives; pydantic validates the body (lines 113-118, 222)   *)
(***************************************************************************)
Receive ==
    /\ pc = "idle"
    /\ unit.fn = "none"
    /\ \E body \in Payloads :
        /\ payload' = body
        /\ IF FlipFlopRequest(body)
           THEN pc' = "build_client" /\ response' = response
           ELSE pc' = "done" /\ response' = [NoResponse EXCEPT !.status = UNPROCESSABLE]
    /\ UNCHANGED <<environ, outbound, llm_paragraph, paragraph, truncated,
                   image_prompt, image_url, unit>>

(***************************************************************************)
(* _call_flipflop_llm, line 157: client = _build_llm_client()              *)
(***************************************************************************)
BuildClient ==
    /\ pc = "build_client"
    /\ LET client == _build_llm_client(environ)
       IN IF client.raised # NoExc
          THEN Fail(client.raised)
          ELSE pc' = "call_llm" /\ response' = response
    /\ UNCHANGED <<environ, payload, outbound, llm_paragraph, paragraph, truncated,
                   image_prompt, image_url, unit>>

(***************************************************************************)
(* _call_flipflop_llm, lines 158-179: one chat completion with the         *)
(* stripped nouns (line 223), whatever the provider answers                *)
(***************************************************************************)
CallLLM ==
    /\ pc = "call_llm"
    /\ outbound' = Append(outbound,
           OutboundCall("llm", UserMessage(strip(payload.noun1), strip(payload.noun2))))
    /\ \E completion \in Completions :
        LET got == read_completion(completion)
        IN IF got.raised # NoExc
           THEN Fail(got.raised) /\ llm_paragraph' = llm_paragraph
           ELSE /\ llm_paragraph' = got.paragraph
                /\ pc' = "enforce"
                /\ response' = response
    /\ UNCHANGED <<environ, payload, paragraph, truncated, image_prompt, image_url, unit>>

(***************************************************************************)
(* flipflop, line 224                                                      *)
(***************************************************************************)
EnforceLength ==
    /\ pc = "enforce"
    /\ LET got == _enforce_length(llm_paragraph, payload.enforce_length)
       IN IF got.raised # NoExc
          THEN Fail(got.raised) /\ UNCHANGED <<paragraph, truncated>>
          ELSE /\ paragraph' = got.paragraph
               /\ truncated' = got.truncated
               /\ pc' = IF payload.request_image THEN "image" ELSE "respond"
               /\ response' = response
    /\ UNCHANGED <<environ, payload, outbound, llm_paragraph, image_prompt, image_url, unit>>

(***************************************************************************)
(* flipflop, lines 228-230: the prompt, then the image backend             *)
(***************************************************************************)
ImageStep(source) ==
    /\ pc = "image"
    /\ LET prompt == _maybe_build_image_prompt(source, payload.image_style_tail)
       IN /\ image_prompt' = PyStr(prompt)
          /\ \E resp \in PipelineHttpResponses :
              LET got == _maybe_generate_image(environ, resp)
              IN /\ outbound' = IF got.called
                                THEN Append(outbound, OutboundCall("image", prompt))
                                ELSE outbound
                 /\ IF got.raised # NoExc
                    THEN Fail(got.raised) /\ image_url' = image_url
                    ELSE /\ image_url' = got.value
                         /\ pc' = "respond"
                         /\ response' = response
    /\ UNCHANGED <<environ, payload, llm_paragraph, paragraph, truncated, unit>>

BuildAndGenerateImage_from_raw == ImageStep(llm_paragraph)

BuildAndGenerateImage == ImageStep(paragraph)

(***************************************************************************)
(* flipflop, lines 232-237                                                 *)
(***************************************************************************)
Respond ==
    /\ pc = "respond"
    /\ pc' = "done"
    /\ response' = FlipFlopResponse(paragraph, truncated, image_prompt, image_url)
    /\ UNCHANGED <<environ, payload, outbound, llm_paragraph, paragraph, truncated,
                   image_prompt, image_url, unit>>

(***************************************************************************)
(* The functions called on their own                                       *)
(***************************************************************************)
UnitCall(fn, ret) ==
    /\ unit.fn = fn
    /\ ~unit.done
    /\ unit' = [unit EXCEPT !.done = TRUE, !.ret = ret]
    /\ UNCHANGED <<pc, environ, payload, outbound, llm_paragraph, paragraph, truncated,
                   image_prompt, image_url, response>>

CallEnforce == UnitCall("enforce", _enforce_length(unit.paragraph, unit.enforce))

CallBuild == UnitCall("build", _maybe_build_image_prompt(unit.paragraph, unit.tail))

CallGenerate == UnitCall("generate", _maybe_generate_image(environ, unit.resp))

Next ==
    \/ CallEnforce
    \/ CallBuild
    \/ CallGenerate
    \/ Receive
    \/ BuildClient
    \/ CallLLM
    \/ EnforceLength
    \/ BuildAndGenerateImage
    \/ Respond

Spec == Init /\ [][Next]_vars

(***************************************************************************)
(* Properties                                                              *)
(***************************************************************************)
ContractViolationError ==
    HTTPException(BAD_GATEWAY, "Model returned text shorter than 450 characters.")

LLMErrors ==
    {HTTPException(BAD_GATEWAY, "LLM call failed"),
     HTTPException(BAD_GATEWAY, "LLM returned no choices."),
     HTTPException(BAD_GATEWAY, "LLM returned empty content.")}

ImageCalls == {i \in 1..Len(outbound) : outbound[i].to = "image"}
LLMCalls == {i \in 1..Len(outbound) : outbound[i].to = "llm"}

\* _enforce_length was called on its own and has returned
EnforceCalled == unit.fn = "enforce" /\ unit.done

\* the request's handler is past line 224: the LLM returned a paragraph and
\* _enforce_length has been called on it
PastEnforce == llm_paragraph # <<>> /\ pc # "enforce"

NoApiKey ==
    /\ ~Truthy(environ.AZURE_OPENAI_API_KEY)
    /\ ~Truthy(environ.OPENAI_API_KEY)
    /\ ~Truthy(environ.OPENAI_APIKEY)

\* C1: a paragraph longer than 500 characters, enforced, comes back as exactly
\* its first 500 characters with truncated = true and no error; a request whose
\* LLM output is longer than 500, with enforce_length and no image requested,
\* succeeds with truncated = true and a 500-character paragraph.
C1_Truncation ==
    /\ (EnforceCalled /\ unit.enforce /\ Len(unit.paragraph) > MAX_CHARS) =>
          /\ unit.ret = EnforceReturn(SubSeq(unit.paragraph, 1, MAX_CHARS), TRUE)
          /\ Len(unit.ret.paragraph) = 500
    /\ (PastEnforce /\ payload.enforce_length /\ Len(llm_paragraph) > MAX_CHARS) =>
          /\ paragraph = SubSeq(llm_paragraph, 1, MAX_CHARS)
          /\ Len(paragraph) = 500
          /\ truncated
          /\ response.raised # ContractViolationError
    /\ (pc = "done" /\ llm_paragraph # <<>> /\ payload.enforce_length
          /\ Len(llm_paragraph) > MAX_CHARS /\ ~payload.request_image) =>
          /\ response.status = HTTP_OK
          /\ response.truncated
          /\ response.paragraph = SubSeq(llm_paragraph, 1, MAX_CHARS)
          /\ response.image_prompt = PyNone
          /\ response.image_url = PyNone

C1_Witness ==
    /\ pc = "done"
    /\ payload.enforce_length
    /\ Len(llm_paragraph) > MAX_CHARS
    /\ llm_paragraph[MAX_CHARS + 1] # " "
    /\ response.status = HTTP_OK
    /\ response.truncated

\* C2: a paragraph shorter than 450 characters (after any truncation), enforced,
\* raises the contract violation and returns no paragraph; the request then
\* fails as a unit: no result, no image prompt, no image call, whatever
\* request_image is.
C2_Violation ==
    /\ (EnforceCalled /\ unit.enforce /\ Len(Prefix(unit.paragraph, MAX_CHARS)) < MIN_CHARS) =>
          unit.ret = EnforceRaise(ContractViolationError)
    /\ (PastEnforce /\ payload.enforce_length
          /\ Len(Prefix(llm_paragraph, MAX_CHARS)) < MIN_CHARS) =>
          /\ pc = "done"
          /\ response = ErrorResponse(ContractViolationError)
          /\ response.status = BAD_GATEWAY
          /\ response.paragraph = <<>>
          /\ image_prompt = PyNone
          /\ image_url = PyNone
          /\ ImageCalls = {}

C2_Witness ==
    /\ pc = "done"
    /\ payload.request_image
    /\ ImageBackendConfigured(environ)
    /\ payload.enforce_length
    /\ Len(llm_paragraph) = MIN_CHARS - 1
    /\ response.raised = ContractViolationError

\* C3: _enforce_length returns its paragraph unchanged with truncated = false,
\* and raises nothing, when enforce is false (any length) or the length is in
\* [450, 500]; lengths exactly 450 and exactly 500 included.
C3_Identity ==
    /\ (EnforceCalled /\ (~unit.enforce
                          \/ (Len(unit.paragraph) >= 450 /\ Len(unit.paragraph) <= 500))) =>
          unit.ret = EnforceReturn(unit.paragraph, FALSE)
    /\ (PastEnforce /\ (~payload.enforce_length
                        \/ (Len(llm_paragraph) >= 450 /\ Len(llm_paragraph) <= 500))) =>
          /\ paragraph = llm_paragraph
          /\ ~truncated
          /\ response.raised # ContractViolationError

C3_Witness ==
    /\ EnforceCalled
    /\ unit.enforce
    /\ Len(unit.paragraph) = MIN_CHARS
    /\ unit.ret.raised = NoExc

\* C4: build(p, tail) is exactly p when tail is absent, empty or only
\* whitespace, and p + " " + trim(tail) when tail is non-empty after trimming.
C4_BuildTrimsTail ==
    (unit.fn = "build" /\ unit.done) =>
        unit.ret = IF unit.tail.t = "None" \/ strip(unit.tail.s) = <<>>
                   THEN unit.paragraph
                   ELSE unit.paragraph \o <<" ">> \o strip(unit.tail.s)

\* C5: the image backend is called only after the LLM call returned a usable
\* paragraph and length enforcement succeeded; when the LLM call fails the
\* request fails with that error and no image call is made.
C5_Ordering ==
    /\ \A i \in ImageCalls :
          /\ \E j \in LLMCalls : j < i
          /\ llm_paragraph # <<>>
          /\ strip(llm_paragraph) = llm_paragraph
          /\ payload.enforce_length =>
                 (Len(llm_paragraph) >= MIN_CHARS /\ Len(paragraph) <= MAX_CHARS)
          /\ paragraph = IF payload.enforce_length
                         THEN Prefix(llm_paragraph, MAX_CHARS) ELSE llm_paragraph
          /\ response.raised \notin LLMErrors \cup {ContractViolationError}
    /\ (pc = "done" /\ LLMCalls # {} /\ llm_paragraph = <<>>) =>
          /\ response.raised \in LLMErrors
          /\ response.status = BAD_GATEWAY
          /\ ImageCalls = {}
          /\ image_prompt = PyNone
    /\ response.raised \in LLMErrors => ImageCalls = {} /\ llm_paragraph = <<>>

C5_Witness ==
    /\ pc = "done"
    /\ payload.request_image
    /\ ImageBackendConfigured(environ)
    /\ Len(outbound) = 1
    /\ outbound[1].to = "llm"
    /\ response.raised = HTTPException(BAD_GATEWAY, "LLM call failed")

\* C6: in every result returned, image_prompt is present iff request_image was
\* true, and image_url is never present without image_prompt; with no image
\* backend configured and an image requested, image_prompt is set, image_url
\* is absent and there is no error.
C6_ResultInvariant ==
    /\ response.status = HTTP_OK =>
          /\ (response.image_prompt # PyNone) <=> payload.request_image
          /\ response.image_url # PyNone => response.image_prompt # PyNone
    /\ (pc = "done" /\ PastEnforce /\ payload.request_image
          /\ ~ImageBackendConfigured(environ)
          /\ response.raised # ContractViolationError) =>
          /\ response.status = HTTP_OK
          /\ response.image_prompt # PyNone
          /\ response.image_url = PyNone
          /\ ImageCalls = {}

C6_Witness ==
    /\ response.status = HTTP_OK
    /\ payload.request_image
    /\ ~ImageBackendConfigured(environ)
    /\ response.image_prompt # PyNone
    /\ response.image_url = PyNone

\* C7: with none of the three API-key settings present, every request fails
\* before any outbound call, and the failure reaches the caller as the same
\* upstream-failure response as the other errors of the pipeline (502).
C7_MissingCredentials ==
    (pc = "done" /\ FlipFlopRequest(payload) /\ NoApiKey) =>
        /\ outbound = <<>>
        /\ response.raised.exc = "HTTPException"
        /\ response.status = BAD_GATEWAY

\* C8: for every HTTP-successful response whose body parses as JSON,
\* _maybe_generate_image does not fail: it returns the value of "url" if that
\* member is present, otherwise the value of "image_url", otherwise None;
\* bodies that are no object included.
C8_BestEffortPayload ==
    (unit.fn = "generate" /\ unit.done /\ ImageBackendConfigured(environ)
       /\ unit.resp.transport = "ok" /\ IsSuccess(unit.resp.status) /\ unit.resp.parses) =>
        /\ unit.ret.raised = NoExc
        /\ unit.ret.value = IF unit.resp.body.url.present THEN unit.resp.body.url.v
                            ELSE IF unit.resp.body.image_url.present
                                 THEN unit.resp.body.image_url.v
                                 ELSE PyNone

\* C9: for every request the endpoint accepts, both nouns are non-empty after
\* stripping, so the user message sent to the LLM never holds an empty noun.
C9_NounsNonEmpty ==
    \A i \in LLMCalls :
        /\ FlipFlopRequest(payload)
        /\ outbound[i].body = UserMessage(strip(payload.noun1), strip(payload.noun2))
        /\ strip(payload.noun1) # <<>>
        /\ strip(payload.noun2) # <<>>

\* C10: in every successful result with request_image, image_prompt is the
\* prompt built from the result's paragraph, which is the paragraph
\* _enforce_length returned (the truncated text, never the raw LLM output),
\* and the prompt sent to the image backend is exactly that image_prompt.
C10_PromptFromEnforced ==
    /\ \A i \in ImageCalls : PyStr(outbound[i].body) = image_prompt
    /\ (response.status = HTTP_OK /\ payload.request_image) =>
          /\ response.paragraph = IF payload.enforce_length
                                  THEN Prefix(llm_paragraph, MAX_CHARS) ELSE llm_paragraph
          /\ response.image_prompt =
                 PyStr(_maybe_build_image_prompt(response.paragraph, payload.image_style_tail))
          /\ ~Truthy(payload.image_style_tail) =>
                 response.image_prompt.s = response.paragraph
          /\ (Truthy(payload.image_style_tail) /\ strip(payload.image_style_tail.s) # <<>>) =>
                 response.image_prompt.s =
                     response.paragraph \o <<" ">> \o strip(payload.image_style_tail.s)
          /\ \A i \in ImageCalls : PyStr(outbound[i].body) = response.image_prompt

C10_Witness ==
    /\ response.status = HTTP_OK
    /\ payload.request_image
    /\ response.truncated
    /\ Truthy(payload.image_style_tail)
    /\ ImageCalls # {}
    /\ response.image_url # PyNone

=============================================================================
